---- MODULE Spec2Model ----
(***************************************************************************)
(* The DGUS dashboard asset generators: real2.py, try.py, turn.py, ii.py.  *)
(* Each script draws images and saves them under fixed relative paths.     *)
(* The model keeps the working directory (directories and files), the      *)
(* position of the running script, its fonts, the images it holds in       *)
(* memory, and how it ended.  Scripts are run one after another from the   *)
(* same working directory.                                                 *)
(***************************************************************************)
EXTENDS Integers, Sequences, FiniteSets, TLC

VARIABLES
    order,      \* scripts still to be run in this working directory
    script,     \* the running (or last run) script, "none" before the first
    pc,         \* position in the running script
    sec,        \* index of the current section (real2 loops, try steps)
    i,          \* the loop variable of the current section
    img,        \* the image under construction, NoImg when none
    frames,     \* the list built by charging_icon_animated / indicator_animated
    created,    \* number of images created so far in this run
    unsaved,    \* ids of the images created in this run and not saved
    fonts,      \* font_big, font_med, font_small of the running script
    fs,         \* the files of the working directory: path -> what was saved
    dirs,       \* the directories of the working directory
    log,        \* the paths saved in this run, in order
    started,    \* the generation steps started in this run, in order
    summary,    \* whether the final summary was printed in this run
    status,     \* the exit status once pc = "exit"
    drawn,      \* what the loop body computed and drew on the current image
    made,       \* the directories this run has created (or found in place)
    outcome     \* how the run ended: what was raised, where, who caught it

vars == <<order, script, pc, sec, i, img, frames, created, unsaved, fonts,
          fs, dirs, log, started, summary, status, outcome, drawn, made>>

(***************************************************************************)
(* Bounds                                                                  *)
(***************************************************************************)
MaxRuns == 2

(***************************************************************************)
(* Program constants                                                       *)
(***************************************************************************)
WIDTH == 200
HEIGHT == 200
SPEED_MAX == 80
CANVAS_WIDTH == 1024
CANVAS_HEIGHT == 600
BASE_DIR == "dgus_assets"
OUTPUT_DIR == "dgus_assets"

Scripts == {"real2", "try", "turn", "ii"}

\* real2.py: the folders created at start-up
folders == <<"speed", "rpm", "temp_motor", "temp_controller", "temp_battery",
             "soc", "battery_vi", "motor_vi", "charging", "indicators",
             "warnings">>

\* Config.FOLDERS with the "bars" folder left out
FOLDERS_NoBars == <<"background", "labels", "indicators", "warning",
                    "charging">>

\* try.py: Config.FOLDERS
FOLDERS == <<"background", "labels", "indicators", "warning", "bars",
             "charging">>

(***************************************************************************)
(* Formatting of numbers into file names                                   *)
(***************************************************************************)
Digit == <<"0", "1", "2", "3", "4", "5", "6", "7", "8", "9">>

\* str(n) for n >= 0
RECURSIVE Decimal(_)
Decimal(n) ==
    IF n < 10 THEN Digit[n + 1]
    ELSE Decimal(n \div 10) \o Digit[(n % 10) + 1]

\* zero padding on the left up to a minimum width
RECURSIVE ZeroPad(_, _)
ZeroPad(s, width) ==
    IF Len(s) >= width THEN s ELSE ZeroPad("0" \o s, width)

\* a slip in the file name: f"{v}.png", the width forgotten
Format_NoPad(v, width) == Decimal(v)

\* f"{v:0<width>}"
Format(v, width) == ZeroPad(Decimal(v), width)

\* os.path.join / pathlib "/" / the "/" of the f-strings
Join(dir, name) == dir \o "/" \o name

(***************************************************************************)
(* Python floats: IEEE-754 binary64.  A positive float is a significand of *)
(* Precision bits, the first of them 1, and the exponent of that first     *)
(* bit: its value is the sum of bits[k] * 2^(exp - k + 1).                 *)
(***************************************************************************)
Precision == 53

FZero == [exp |-> 0, bits |-> [k \in 1..Precision |-> 0]]

IsZero(x) == x.bits[1] = 0

\* a / b scaled by a power of two so that b <= a < 2b, for a, b > 0;
\* exp is the power of two taken out of the quotient
Normalise(a, b) ==
    IF a >= b
      THEN LET e == CHOOSE e \in 0..30 : b * 2^e <= a /\ a < b * 2^(e + 1)
           IN [a |-> a, b |-> b * 2^e, exp |-> e]
      ELSE LET e == CHOOSE e \in 1..30 : a * 2^e >= b /\ a * 2^(e - 1) < b
           IN [a |-> a * 2^e, b |-> b, exp |-> 0 - e]

\* 2^k mod b, by repeated squaring
RECURSIVE PowMod(_, _)
PowMod(k, b) ==
    IF k = 0 THEN 1 % b
    ELSE LET h == PowMod(k \div 2, b)
             sq == (h * h) % b
         IN IF k % 2 = 1 THEN (2 * sq) % b ELSE sq

\* the remainder of long division of rem / b after n binary places
QuotientRem(rem, b, n) == (rem * PowMod(n, b)) % b

\* the first n binary places of rem / b, for rem < b
QuotientBits(rem, b, n) ==
    [k \in 1..n |-> (2 * QuotientRem(rem, b, k - 1)) \div b]

\* the significand plus one unit in its last place; when every bit is 1 the
\* result is one bit longer
Increment(bits) ==
    IF \A k \in DOMAIN bits : bits[k] = 1
      THEN <<1>> \o [k \in DOMAIN bits |-> 0]
      ELSE LET last == CHOOSE j \in DOMAIN bits :
                          /\ bits[j] = 0
                          /\ \A k \in DOMAIN bits : k > j => bits[k] = 1
           IN [k \in DOMAIN bits |->
                 IF k < last THEN bits[k] ELSE IF k = last THEN 1 ELSE 0]

\* round to nearest, ties to even: kept holds Precision bits, up tells
\* whether the discarded part is above one half, tie whether it is one half
RoundNearestEven(kept, exp, up, tie) ==
    IF up \/ (tie /\ kept[Precision] = 1)
      THEN LET inc == Increment(kept)
           IN IF Len(inc) > Precision
                THEN [exp |-> exp + 1, bits |-> SubSeq(inc, 1, Precision)]
                ELSE [exp |-> exp, bits |-> inc]
      ELSE [exp |-> exp, bits |-> kept]

\* int / int: the quotient of two integers a >= 0, b > 0, correctly rounded
TrueDiv(a, b) ==
    IF a = 0 THEN FZero
    ELSE LET nm == Normalise(a, b)
             kept == <<1>> \o QuotientBits(nm.a - nm.b, nm.b, Precision - 1)
             rem == QuotientRem(nm.a - nm.b, nm.b, Precision - 1)
         IN RoundNearestEven(kept, nm.exp, 2 * rem > nm.b, 2 * rem = nm.b)

\* the integer with the given binary digits, most significant first
RECURSIVE FromBinary(_)
FromBinary(bits) ==
    IF bits = <<>> THEN 0
    ELSE 2 * FromBinary(SubSeq(bits, 1, Len(bits) - 1)) + bits[Len(bits)]

\* n >= 0 as width binary digits, most significant first
ToBinary(n, width) == [k \in 1..width |-> (n \div 2^(width - k)) % 2]

\* the number of binary digits of n >= 0
BitLength(n) == CHOOSE w \in 0..30 : n < 2^w /\ (w = 0 \/ 2^(w - 1) <= n)

\* the significand times n as binary digits, most significant first: the
\* product is taken on the limbs bits[1..13], bits[14..33], bits[34..53]
TimesInt(bits, n) ==
    LET low == FromBinary(SubSeq(bits, 34, 53)) * n
        mid == FromBinary(SubSeq(bits, 14, 33)) * n + low \div 2^20
        top == FromBinary(SubSeq(bits, 1, 13)) * n + mid \div 2^20
    IN ToBinary(top, BitLength(top)) \o ToBinary(mid % 2^20, 20)
         \o ToBinary(low % 2^20, 20)

\* float * int for an integer 0 < n < 2048 (converted exactly): the
\* product, correctly rounded
FloatTimes(x, n) ==
    IF IsZero(x) THEN FZero
    ELSE LET prod == TimesInt(x.bits, n)
             extra == Len(prod) - Precision
             kept == SubSeq(prod, 1, Precision)
             guard == IF extra > 0 THEN prod[Precision + 1] ELSE 0
             sticky == \E k \in (Precision + 2)..Len(prod) : prod[k] = 1
         IN RoundNearestEven(kept, x.exp + extra, guard = 1 /\ sticky,
                             guard = 1 /\ ~sticky)

\* int(x) for a float x >= 0: truncation
IntOf(x) ==
    IF IsZero(x) \/ x.exp < 0 THEN 0
    ELSE FromBinary(SubSeq(x.bits, 1, x.exp + 1))

\* x < y for floats x, y >= 0
FloatLess(x, y) ==
    IF IsZero(y) THEN FALSE
    ELSE IF IsZero(x) THEN TRUE
    ELSE IF x.exp # y.exp THEN x.exp < y.exp
    ELSE \E k \in 1..Precision :
            /\ x.bits[k] < y.bits[k]
            /\ \A j \in 1..(k - 1) : x.bits[j] = y.bits[j]

\* the literals 0.5 and 0.75
Half == TrueDiv(1, 2)
ThreeQuarters == TrueDiv(3, 4)

(***************************************************************************)
(* Images and files                                                        *)
(***************************************************************************)
NoImg == [id |-> 0, w |-> 0, h |-> 0, mode |-> "none"]

\* Image.new(mode, (w, h), ...): a fresh image, numbered in creation order
NewImage(mode, w, h) == [id |-> created + 1, w |-> w, h |-> h, mode |-> mode]

\* the file left on disk by image.save(path) in the running script
FileOf(image) == [by |-> script, w |-> image.w, h |-> image.h, mode |-> image.mode]

\* image.save(path): the file is created or overwritten
Write(path, image) ==
    [p \in DOMAIN fs \cup {path} |-> IF p = path THEN FileOf(image) ELSE fs[p]]

NoOutcome == [raised |-> "none", at |-> "none", caught |-> "none",
              reported |-> "none"]

NoFonts == [big |-> "unset", med |-> "unset", small |-> "unset"]

NoStatus == 0 - 1

NoDraw == [kind |-> "none"]

(***************************************************************************)
(* Running scripts one after another                                       *)
(***************************************************************************)
RECURSIVE SeqsOver(_, _)
SeqsOver(S, n) ==
    IF n = 0 THEN {<<>>}
    ELSE LET shorter == SeqsOver(S, n - 1)
         IN shorter \cup {Append(s, x) : s \in shorter, x \in S}

NoRepeat(s) == \A a, b \in DOMAIN s : a # b => s[a] # s[b]

Orders == {s \in SeqsOver(Scripts, MaxRuns) : s # <<>> /\ NoRepeat(s)}

FirstPc(s) ==
    CASE s = "real2" -> "makedirs"
      [] s = "try" -> "mkdir"
      [] s = "turn" -> "draw_turn"
      [] s = "ii" -> "draw_hazard"

Init ==
    /\ order \in Orders
    /\ script = "none"
    /\ pc = "idle"
    /\ sec = 0
    /\ i = 0
    /\ img = NoImg
    /\ frames = <<>>
    /\ created = 0
    /\ unsaved = {}
    /\ fonts = NoFonts
    /\ fs = <<>>
    /\ dirs = {}
    /\ log = <<>>
    /\ started = <<>>
    /\ summary = FALSE
    /\ status = NoStatus
    /\ outcome = NoOutcome
    /\ drawn = NoDraw
    /\ made = {}

\* python <script>.py: a fresh process in the same working directory
StartScript ==
    /\ pc \in {"idle", "exit"}
    /\ order # <<>>
    /\ script' = Head(order)
    /\ order' = Tail(order)
    /\ pc' = FirstPc(Head(order))
    /\ sec' = 1
    /\ i' = 1
    /\ img' = NoImg
    /\ frames' = <<>>
    /\ created' = 0
    /\ unsaved' = {}
    /\ fonts' = NoFonts
    /\ log' = <<>>
    /\ started' = <<>>
    /\ summary' = FALSE
    /\ status' = NoStatus
    /\ outcome' = NoOutcome
    /\ drawn' = NoDraw
    /\ made' = {}
    /\ UNCHANGED <<fs, dirs>>

\* the process ends with the given status
Exit(code, how) ==
    /\ pc' = "exit"
    /\ status' = code
    /\ outcome' = how

\* img = Image.new(...)
Create(image) ==
    /\ img' = image
    /\ created' = created + 1
    /\ unsaved' = unsaved \cup {image.id}

\* image.save(path)
Save(image, path) ==
    /\ fs' = Write(path, image)
    /\ log' = Append(log, path)
    /\ unsaved' = unsaved \ {image.id}

(***************************************************************************)
(* try.py                                                                  *)
(***************************************************************************)
LabelFiles == <<"speed.png", "rpm.png", "temp_motor.png", "temp_controller.png",
                "temp_battery.png", "battery.png", "motor.png">>

ArrowNames == <<"left_off", "left_on", "right_off", "right_on">>

\* one entry per image a step saves: file name and Image.new arguments
Asset(file, mode, w, h) == [file |-> file, mode |-> mode, w |-> w, h |-> h]

create_background ==
    <<Asset("dashboard_bg.png", "RGB", CANVAS_WIDTH, CANVAS_HEIGHT)>>

\* a slip in create_labels: the last label of the list left out
create_labels_Short ==
    [j \in 1..(Len(LabelFiles) - 1) |-> Asset(LabelFiles[j], "RGBA", 260, 50)]

create_labels ==
    [j \in 1..Len(LabelFiles) |-> Asset(LabelFiles[j], "RGBA", 260, 50)]

create_indicators ==
    [j \in 1..Len(ArrowNames) |-> Asset(ArrowNames[j] \o ".png", "RGBA", 120, 80)]

create_warnings ==
    <<Asset("warning_off.png", "RGBA", 100, 90),
      Asset("warning_on.png", "RGBA", 100, 90)>>

create_temp_bars ==
    <<Asset("temp_bar_empty.png", "RGBA", 50, 200),
      Asset("temp_bar_fill.png", "RGBA", 50, 200)>>

create_soc_bars ==
    <<Asset("soc_bar_empty.png", "RGBA", 200, 40),
      Asset("soc_bar_fill.png", "RGBA", 200, 40)>>

create_bars == create_temp_bars \o create_soc_bars

create_charging_icons ==
    <<Asset("charging.png", "RGBA", 80, 80),
      Asset("discharging.png", "RGBA", 80, 80)>>

\* the calls of generate_all, in order, with the folder each saves into
TrySteps ==
    <<[name |-> "create_background", folder |-> "background", assets |-> create_background],
      [name |-> "create_labels", folder |-> "labels", assets |-> create_labels],
      [name |-> "create_indicators", folder |-> "indicators", assets |-> create_indicators],
      [name |-> "create_warnings", folder |-> "warning", assets |-> create_warnings],
      [name |-> "create_bars", folder |-> "bars", assets |-> create_bars],
      [name |-> "create_charging_icons", folder |-> "charging", assets |-> create_charging_icons]>>

TryPath(step, asset) == Join(Join(OUTPUT_DIR, step.folder), asset.file)

\* _create_directories: one mkdir(parents=True, exist_ok=True) per folder
TryMkdir ==
    /\ script = "try" /\ pc = "mkdir"
    /\ dirs' = dirs \cup {OUTPUT_DIR, Join(OUTPUT_DIR, FOLDERS[i])}
    /\ made' = made \cup {OUTPUT_DIR, Join(OUTPUT_DIR, FOLDERS[i])}
    /\ IF i < Len(FOLDERS)
         THEN i' = i + 1 /\ pc' = pc
         ELSE i' = 1 /\ pc' = "load_fonts"
    /\ UNCHANGED <<order, script, drawn,
                   sec, img, frames, created, unsaved, fonts,
                   fs, log, started, summary, status, outcome>>

\* _load_fonts, the try block: font_big, then font_med
TryTruetype ==
    /\ script = "try" /\ pc = "load_fonts"
    /\ IF i = 1
         THEN /\ fonts' = [fonts EXCEPT !.big = "truetype"]
              /\ i' = 2 /\ pc' = pc /\ sec' = sec
         ELSE /\ fonts' = [fonts EXCEPT !.med = "truetype"]
              /\ i' = 0 /\ pc' = "generate" /\ sec' = 1
    /\ UNCHANGED <<order, script, drawn,
                   made,
                   img, frames, created, unsaved, fs, dirs, log,
                   started, summary, status, outcome>>

\* a slip in the fallback: only font_med is given the default font
TryDefaultFonts_MedOnly == [fonts EXCEPT !.med = "default"]

\* the fonts after "self.font_big = self.font_med = ImageFont.load_default()"
TryDefaultFonts == [fonts EXCEPT !.big = "default", !.med = "default"]

\* _load_fonts, except (OSError, IOError): either truetype call failed
TryFontFallback ==
    /\ script = "try" /\ pc = "load_fonts"
    /\ fonts' = TryDefaultFonts
    /\ i' = 0 /\ pc' = "generate" /\ sec' = 1
    /\ UNCHANGED <<order, script, drawn,
                   made,
                   img, frames, created, unsaved, fs, dirs, log,
                   started, summary, status, outcome>>

\* generate_all calls the next create_* method
TryBeginStep ==
    /\ script = "try" /\ pc = "generate" /\ i = 0
    /\ started' = Append(started, TrySteps[sec].name)
    /\ i' = 1
    /\ UNCHANGED <<order, script, drawn,
                   made,
                   pc, sec, img, frames, created, unsaved, fonts,
                   fs, dirs, log, summary, status, outcome>>

\* Image.new and the drawing calls of the step's next asset
TryCreate ==
    /\ script = "try" /\ pc = "generate"
    /\ i \in 1..Len(TrySteps[sec].assets)
    /\ img = NoImg
    /\ LET a == TrySteps[sec].assets[i]
       IN Create(NewImage(a.mode, a.w, a.h))
    /\ UNCHANGED <<order, script, drawn,
                   made,
                   pc, sec, i, frames, fonts, fs, dirs, log,
                   started, summary, status, outcome>>

\* img.save(output_path)
TrySave ==
    /\ script = "try" /\ pc = "generate"
    /\ i \in 1..Len(TrySteps[sec].assets)
    /\ img # NoImg
    /\ Save(img, TryPath(TrySteps[sec], TrySteps[sec].assets[i]))
    /\ img' = NoImg
    /\ i' = i + 1
    /\ UNCHANGED <<order, script, drawn,
                   made,
                   pc, sec, frames, created, fonts, dirs,
                   started, summary, status, outcome>>

\* the step's closing print, and its return to generate_all
TryStepDone ==
    /\ script = "try" /\ pc = "generate"
    /\ i = Len(TrySteps[sec].assets) + 1
    /\ IF sec < Len(TrySteps)
         THEN sec' = sec + 1 /\ i' = 0 /\ pc' = pc
         ELSE sec' = sec /\ i' = 0 /\ pc' = "summary"
    /\ UNCHANGED <<order, script, drawn,
                   made,
                   img, frames, created, unsaved, fonts, fs,
                   dirs, log, started, summary, status, outcome>>

\* a slip in main: the two statuses exchanged
MainReturn_Swapped(success) == IF success THEN 1 ELSE 0

\* main: "return 0 if success else 1"
MainReturn(success) == IF success THEN 0 ELSE 1

\* _print_summary, "return True", and main's return
TrySummary ==
    /\ script = "try" /\ pc = "summary"
    /\ summary' = TRUE
    /\ Exit(MainReturn(TRUE), NoOutcome)
    /\ UNCHANGED <<order, script, drawn,
                   made,
                   sec, i, img, frames, created, unsaved, fonts,
                   fs, dirs, log, started>>

\* where the running try.py is, as the name of the routine
TryWhere == IF pc = "generate" THEN TrySteps[sec].name ELSE pc

\* the try block of generate_all encloses the six steps and the summary
InGenerateAll == pc = "summary" \/ (pc = "generate" /\ i > 0)

\* a slip in generate_all: "except BaseException", which also swallows a
\* keyboard interrupt
TryHandle_CatchAll(kind) ==
    IF InGenerateAll
      THEN [status |-> MainReturn(FALSE), caught |-> "generate_all",
            reported |-> "Error during generation"]
    ELSE IF kind = "KeyboardInterrupt"
      THEN [status |-> 130, caught |-> "main",
            reported |-> "Generation cancelled by user"]
      ELSE [status |-> 1, caught |-> "main", reported |-> "Fatal error"]

\* what generate_all and main make of an exception raised at TryWhere:
\* generate_all catches Exception, reports it and returns False; main
\* catches KeyboardInterrupt (130) and any other Exception (1)
TryHandle(kind) ==
    IF InGenerateAll /\ kind = "Exception"
      THEN [status |-> MainReturn(FALSE), caught |-> "generate_all",
            reported |-> "Error during generation"]
    ELSE IF kind = "KeyboardInterrupt"
      THEN [status |-> 130, caught |-> "main",
            reported |-> "Generation cancelled by user"]
      ELSE [status |-> 1, caught |-> "main", reported |-> "Fatal error"]

\* a slip in generate_all: each step wrapped in its own try/except, so the
\* error of one step is reported and the next step runs
TryRaise_Continue ==
    /\ script = "try"
    /\ pc \in {"mkdir", "load_fonts"} \/ InGenerateAll
    /\ \E kind \in {"Exception", "KeyboardInterrupt"} :
         LET h == TryHandle(kind)
         IN IF pc = "generate" /\ kind = "Exception"
              THEN /\ outcome' = [raised |-> kind, at |-> TryWhere,
                                  caught |-> h.caught, reported |-> h.reported]
                   /\ i' = Len(TrySteps[sec].assets) + 1
                   /\ img' = NoImg
                   /\ UNCHANGED <<pc, status>>
              ELSE /\ Exit(h.status, [raised |-> kind, at |-> TryWhere,
                                      caught |-> h.caught, reported |-> h.reported])
                   /\ UNCHANGED <<i, img>>
    /\ UNCHANGED <<order, script, drawn,
                   made,
                   sec, frames, created, unsaved, fonts,
                   fs, dirs, log, started, summary>>

\* a library call (mkdir, truetype, Image.new, draw, save, print) raises;
\* an OSError of truetype is TryFontFallback, not this
TryRaise ==
    /\ script = "try"
    /\ pc \in {"mkdir", "load_fonts"} \/ InGenerateAll
    /\ \E kind \in {"Exception", "KeyboardInterrupt"} :
         LET h == TryHandle(kind)
         IN Exit(h.status, [raised |-> kind, at |-> TryWhere,
                            caught |-> h.caught, reported |-> h.reported])
    /\ UNCHANGED <<order, script, drawn,
                   made,
                   sec, i, img, frames, created, unsaved, fonts,
                   fs, dirs, log, started, summary>>

TryNext ==
    \/ TryMkdir \/ TryTruetype \/ TryFontFallback \/ TryBeginStep
    \/ TryCreate \/ TrySave \/ TryStepDone \/ TrySummary \/ TryRaise

(***************************************************************************)
(* real2.py                                                                *)
(***************************************************************************)
\* a section that saves one frame per value of range(n) into a folder
Frames(folder, n, w, h, pad) ==
    [folder |-> folder, n |-> n, w |-> w, h |-> h, pad |-> pad]

\* a slip in temp_bar_enhanced: the bar drawn on the declared canvas
temp_bar_enhanced_Canvas(folder) == Frames(folder, 101, WIDTH, HEIGHT, 3)

\* temp_bar_enhanced saving every bar into the folder of the motor
temp_bar_enhanced_OneFolder(folder) == Frames("temp_motor", 101, 80, 220, 3)

\* temp_bar_enhanced(folder, label): for t in range(101)
temp_bar_enhanced(folder) == Frames(folder, 101, 80, 220, 3)

\* a slip in vi_bar_enhanced: range(max_val), the last value left out
vi_bar_enhanced_Short(folder, max_val) == Frames(folder, max_val, 240, 70, 3)

\* vi_bar_enhanced(folder, label, max_val, unit): for v in range(max_val + 1)
vi_bar_enhanced(folder, max_val) == Frames(folder, max_val + 1, 240, 70, 3)

\* the numbered sections of real2.py, in program order
R2Loops ==
    <<Frames("speed", SPEED_MAX + 1, WIDTH, HEIGHT, 3),
      Frames("rpm", 17, WIDTH, HEIGHT, 2),
      temp_bar_enhanced("temp_motor"),
      temp_bar_enhanced("temp_controller"),
      temp_bar_enhanced("temp_battery"),
      Frames("soc", 101, 240, 80, 3),
      vi_bar_enhanced("battery_vi", 100),
      vi_bar_enhanced("motor_vi", 150)>>

\* the colours of real2.py
GREEN == <<0, 220, 120>>
YELLOW == <<255, 200, 0>>
RED == <<220, 50, 50>>
BLUE == <<0, 150, 255>>

\* get_temp_color with the thresholds taken inclusively
get_temp_color_Inclusive(temp, max_temp) ==
    LET ratio == TrueDiv(temp, max_temp)
    IN IF ~FloatLess(Half, ratio) THEN GREEN
       ELSE IF ~FloatLess(ThreeQuarters, ratio) THEN YELLOW
       ELSE RED

\* get_temp_color(temp, max_temp)
get_temp_color(temp, max_temp) ==
    LET ratio == TrueDiv(temp, max_temp)
    IN IF FloatLess(ratio, Half) THEN GREEN
       ELSE IF FloatLess(ratio, ThreeQuarters) THEN YELLOW
       ELSE RED

\* speed gauge: "Dynamic color based on speed"
SpeedColor(v) == IF v < 40 THEN GREEN ELSE IF v < 60 THEN YELLOW ELSE RED

\* the rpm selection with its first threshold at 4500
RpmColor_Late(rpm_val) ==
    IF rpm_val < 4500 THEN GREEN ELSE IF rpm_val < 6000 THEN YELLOW ELSE RED

\* rpm gauge: "Color based on RPM range"
RpmColor(rpm_val) ==
    IF rpm_val < 4000 THEN GREEN ELSE IF rpm_val < 6000 THEN YELLOW ELSE RED

\* SOC bar: "Fill color based on charge level"
SocColor(s) == IF s > 60 THEN GREEN ELSE IF s > 20 THEN YELLOW ELSE RED

\* the arc with the angle rounded to the nearest integer
Arc_Rounded(v, max, color) ==
    LET angle == (2 * 270 * v + max) \div (2 * max)
    IN [kind |-> "arc", color |-> color, angle |-> angle,
        start |-> 135, end |-> 135 + angle]

\* angle = int(270 * v / max); draw_arc_gauge(..., 135, 135 + angle, color)
Arc(v, max, color) ==
    LET angle == IntOf(TrueDiv(270 * v, max))
    IN [kind |-> "arc", color |-> color, angle |-> angle,
        start |-> 135, end |-> 135 + angle]

\* the speed gauge frame for v
SpeedDraw(v) == Arc(v, SPEED_MAX, SpeedColor(v))

\* the rpm gauge frame for i, rpm_val = i * 500
RpmDraw(n) == Arc(n, 16, RpmColor(n * 500))

\* a bar: the outline rectangle with its line width, and the fill rectangle,
\* drawn only "if fill > 0"
Fill(color, fill, box, outline, width) ==
    [kind |-> "bar", color |-> color, fill |-> fill,
     outline |-> outline, width |-> width,
     rect |-> IF fill > 0 THEN box ELSE <<>>]

\* temp_bar_enhanced with the fill scaled to 200 pixels
TempDraw_Tall(t) ==
    LET base_y == 201
        fill_h == IntOf(FloatTimes(TrueDiv(t, 100), 200))
        top_y == base_y - fill_h
    IN [top_y |-> top_y] @@
       Fill(get_temp_color(t, 100), fill_h, <<19, top_y, 61, base_y>>,
            <<15, 15, 65, 205>>, 3)

\* temp_bar_enhanced, "Outer frame" and "Temperature fill": fill_h, color,
\* top_y, rectangle
TempDraw(t) ==
    LET base_y == 201
        fill_h == IntOf(FloatTimes(TrueDiv(t, 100), 175))
        top_y == base_y - fill_h
    IN [top_y |-> top_y] @@
       Fill(get_temp_color(t, 100), fill_h, <<19, top_y, 61, base_y>>,
            <<15, 15, 65, 205>>, 3)

\* SOC bar, "Battery outline" and "Fill bar": fill_width and rectangle
SocDraw(s) ==
    LET fill_width == IntOf(FloatTimes(TrueDiv(s, 100), 200))
    IN Fill(SocColor(s), fill_width, <<15, 25, 15 + fill_width, 55>>,
            <<10, 20, 220, 60>>, 4)

\* vi_bar_enhanced, "Bar background" and "Fill": fill_width and rectangle
ViDraw(v, max_val) ==
    LET fill_width == IntOf(FloatTimes(TrueDiv(v, max_val), 210))
    IN Fill(BLUE, fill_width, <<13, 33, 13 + fill_width, 57>>,
            <<10, 30, 230, 60>>, 3)

\* what the body of numbered section k computes and draws for loop value v
R2Draw(k, v) ==
    CASE k = 1 -> SpeedDraw(v)
      [] k = 2 -> RpmDraw(v)
      [] k \in {3, 4, 5} -> TempDraw(v)
      [] k = 6 -> SocDraw(v)
      [] k = 7 -> ViDraw(v, 100)
      [] k = 8 -> ViDraw(v, 150)

\* the drawings of all loop bodies, by section and loop value
R2Frames ==
    [k \in DOMAIN R2Loops |->
        [v \in 0..(R2Loops[k].n - 1) |-> R2Draw(k, v)]]

\* f"{BASE_DIR}/{folder}/{name}.png"
R2Path(folder, name) == Join(Join(BASE_DIR, folder), name \o ".png")

\* for f in folders: os.makedirs(os.path.join(BASE_DIR, f), exist_ok=True)
R2Makedirs ==
    /\ script = "real2" /\ pc = "makedirs"
    /\ dirs' = dirs \cup {BASE_DIR, Join(BASE_DIR, folders[i])}
    /\ made' = made \cup {BASE_DIR, Join(BASE_DIR, folders[i])}
    /\ IF i < Len(folders)
         THEN i' = i + 1 /\ pc' = pc
         ELSE i' = 1 /\ pc' = "fonts"
    /\ UNCHANGED <<order, script, drawn,
                   sec, img, frames, created, unsaved, fonts,
                   fs, log, started, summary, status, outcome>>

\* the try block of the font section: font_big, font_med, font_small
R2Truetype ==
    /\ script = "real2" /\ pc = "fonts"
    /\ fonts' = CASE i = 1 -> [fonts EXCEPT !.big = "truetype"]
                  [] i = 2 -> [fonts EXCEPT !.med = "truetype"]
                  [] i = 3 -> [fonts EXCEPT !.small = "truetype"]
    /\ IF i < 3
         THEN i' = i + 1 /\ pc' = pc
         ELSE i' = 0 /\ pc' = "loops"
    /\ UNCHANGED <<order, script, drawn,
                   made,
                   sec, img, frames, created, unsaved, fs, dirs,
                   log, started, summary, status, outcome>>

\* the fonts after "font_big = font_med = font_small = ImageFont.load_default()"
R2DefaultFonts == [big |-> "default", med |-> "default", small |-> "default"]

\* the bare except of the font section: any of the truetype calls raised
R2FontFallback ==
    /\ script = "real2" /\ pc = "fonts"
    /\ fonts' = R2DefaultFonts
    /\ i' = 0 /\ pc' = "loops"
    /\ UNCHANGED <<order, script, drawn,
                   made,
                   sec, img, frames, created, unsaved, fs, dirs,
                   log, started, summary, status, outcome>>

\* loop body up to the save: img = Image.new("RGB", (w, h), BG) and drawing
R2LoopCreate ==
    /\ script = "real2" /\ pc = "loops"
    /\ i < R2Loops[sec].n
    /\ img = NoImg
    /\ Create(NewImage("RGB", R2Loops[sec].w, R2Loops[sec].h))
    /\ drawn' = R2Frames[sec][i]
    /\ UNCHANGED <<order, script, made,
                   pc, sec, i, frames, fonts, fs, dirs, log,
                   started, summary, status, outcome>>

\* img.save(f"{BASE_DIR}/<folder>/{i:0<pad>}.png"), and the next iteration
R2LoopSave ==
    /\ script = "real2" /\ pc = "loops"
    /\ i < R2Loops[sec].n
    /\ img # NoImg
    /\ Save(img, R2Path(R2Loops[sec].folder, Format(i, R2Loops[sec].pad)))
    /\ img' = NoImg
    /\ i' = i + 1
    /\ UNCHANGED <<order, script, drawn,
                   made,
                   pc, sec, frames, created, fonts, dirs,
                   started, summary, status, outcome>>

\* the range is exhausted: on to the next section
R2LoopEnd ==
    /\ script = "real2" /\ pc = "loops"
    /\ i = R2Loops[sec].n
    /\ i' = 0
    /\ IF sec < Len(R2Loops)
         THEN sec' = sec + 1 /\ pc' = pc
         ELSE sec' = sec /\ pc' = "charging_build"
    /\ UNCHANGED <<order, script, drawn,
                   made,
                   img, frames, created, unsaved, fonts, fs,
                   dirs, log, started, summary, status, outcome>>

\* the calls charging_icon_animated(True), charging_icon_animated(False),
\* indicator_animated("left"), indicator_animated("right"): how many frames
\* each builds, their size, and where the script goes with the list
Animated(n, w, h, then) == [n |-> n, w |-> w, h |-> h, then |-> then]

\* a slip in charging_icon_animated: range(5)
R2Build_FiveFrames(at) ==
    CASE at = "charging_build" -> Animated(5, 100, 100, "charging_save")
      [] at = "discharging_build" -> Animated(5, 100, 100, "discharging_save")
      [] at = "left_build" -> Animated(3, 140, 100, "left_save")
      [] at = "right_build" -> Animated(3, 140, 100, "right_save")

R2Build(at) ==
    CASE at = "charging_build" -> Animated(4, 100, 100, "charging_save")
      [] at = "discharging_build" -> Animated(4, 100, 100, "discharging_save")
      [] at = "left_build" -> Animated(3, 140, 100, "left_save")
      [] at = "right_build" -> Animated(3, 140, 100, "right_save")

R2Builds == {"charging_build", "discharging_build", "left_build", "right_build"}

\* one iteration of the frame loop: img = Image.new(...); frames.append(img)
R2BuildFrame ==
    /\ script = "real2" /\ pc \in R2Builds
    /\ i < R2Build(pc).n
    /\ LET image == NewImage("RGB", R2Build(pc).w, R2Build(pc).h)
       IN /\ Create(image)
          /\ frames' = Append(frames, image)
    /\ i' = i + 1
    /\ UNCHANGED <<order, script, drawn,
                   made,
                   pc, sec, fonts, fs, dirs, log, started,
                   summary, status, outcome>>

\* return frames
R2BuildReturn ==
    /\ script = "real2" /\ pc \in R2Builds
    /\ i = R2Build(pc).n
    /\ pc' = R2Build(pc).then
    /\ i' = 0
    /\ UNCHANGED <<order, script, drawn,
                   made,
                   sec, img, frames, created, unsaved, fonts,
                   fs, dirs, log, started, summary, status, outcome>>

\* for i, frame in enumerate(<list>): frame.save(...): folder, prefix, next
R2SaveLoop(at) ==
    CASE at = "charging_save" ->
           [folder |-> "charging", prefix |-> "charging_", then |-> "discharging_build"]
      [] at = "left_save" ->
           [folder |-> "indicators", prefix |-> "left_", then |-> "right_build"]
      [] at = "right_save" ->
           [folder |-> "indicators", prefix |-> "right_", then |-> "off_states"]

R2Saves == {"charging_save", "left_save", "right_save"}

\* frame.save(f"{BASE_DIR}/<folder>/<prefix>{i}.png")
R2SaveFrame ==
    /\ script = "real2" /\ pc \in R2Saves
    /\ i < Len(frames)
    /\ Save(frames[i + 1],
            R2Path(R2SaveLoop(pc).folder, R2SaveLoop(pc).prefix \o Decimal(i)))
    /\ i' = i + 1
    /\ UNCHANGED <<order, script, drawn,
                   made,
                   pc, sec, img, frames, created, fonts, dirs,
                   started, summary, status, outcome>>

\* the enumerate loop is over; the next list is built
R2SaveEnd ==
    /\ script = "real2" /\ pc \in R2Saves
    /\ i = Len(frames)
    /\ pc' = R2SaveLoop(pc).then
    /\ frames' = <<>>
    /\ i' = IF R2SaveLoop(pc).then = "off_states" THEN 1 ELSE 0
    /\ UNCHANGED <<order, script, drawn,
                   made,
                   sec, img, created, unsaved, fonts, fs, dirs,
                   log, started, summary, status, outcome>>

\* discharging_frames[0].save(f"{BASE_DIR}/charging/discharging.png")
R2SaveDischarging ==
    /\ script = "real2" /\ pc = "discharging_save"
    /\ Save(frames[1], R2Path("charging", "discharging"))
    /\ pc' = "left_build"
    /\ frames' = <<>>
    /\ i' = 0
    /\ UNCHANGED <<order, script, drawn,
                   made,
                   sec, img, created, fonts, dirs, started,
                   summary, status, outcome>>

\* the off states, and the entries of the warnings dict in insertion order
R2Icons(at) ==
    CASE at = "off_states" ->
           <<Asset("left_off", "RGB", 140, 100), Asset("right_off", "RGB", 140, 100)>>
      [] at = "warnings" ->
           <<Asset("battery_low", "RGBA", 100, 100), Asset("overheat", "RGBA", 100, 100),
             Asset("motor_fault", "RGBA", 100, 100), Asset("brake", "RGBA", 100, 100),
             Asset("abs", "RGBA", 100, 100)>>

R2IconFolder(at) == IF at = "off_states" THEN "indicators" ELSE "warnings"

\* Image.new and the drawing of one off-state image or warning icon
R2IconCreate ==
    /\ script = "real2" /\ pc \in {"off_states", "warnings"}
    /\ i \in 1..Len(R2Icons(pc))
    /\ img = NoImg
    /\ LET a == R2Icons(pc)[i]
       IN Create(NewImage(a.mode, a.w, a.h))
    /\ UNCHANGED <<order, script, drawn,
                   made,
                   pc, sec, i, frames, fonts, fs, dirs, log,
                   started, summary, status, outcome>>

\* its save, and the move to the next icon, section or the summary
R2IconSave ==
    /\ script = "real2" /\ pc \in {"off_states", "warnings"}
    /\ i \in 1..Len(R2Icons(pc))
    /\ img # NoImg
    /\ Save(img, R2Path(R2IconFolder(pc), R2Icons(pc)[i].file))
    /\ img' = NoImg
    /\ IF i < Len(R2Icons(pc))
         THEN i' = i + 1 /\ pc' = pc
         ELSE i' = 1 /\ pc' = IF pc = "off_states" THEN "warnings" ELSE "summary"
    /\ UNCHANGED <<order, script, drawn,
                   made,
                   sec, frames, created, fonts, dirs, started,
                   summary, status, outcome>>

\* the closing prints; the script ends normally
R2Summary ==
    /\ script = "real2" /\ pc = "summary"
    /\ summary' = TRUE
    /\ Exit(0, NoOutcome)
    /\ UNCHANGED <<order, script, drawn,
                   made,
                   sec, i, img, frames, created, unsaved, fonts,
                   fs, dirs, log, started>>

R2Next ==
    \/ R2Makedirs \/ R2Truetype \/ R2FontFallback
    \/ R2LoopCreate \/ R2LoopSave \/ R2LoopEnd
    \/ R2BuildFrame \/ R2BuildReturn \/ R2SaveFrame \/ R2SaveEnd
    \/ R2SaveDischarging \/ R2IconCreate \/ R2IconSave \/ R2Summary

(***************************************************************************)
(* turn.py and ii.py                                                       *)
(***************************************************************************)
\* a slip in turn.py: the arrows saved into the dashboard's indicator folder
PltCalls_IntoAssets(s) ==
    IF s = "turn"
      THEN <<"dgus_assets/indicators/left_on.png", "dgus_assets/indicators/left_off.png",
             "dgus_assets/indicators/right_on.png", "dgus_assets/indicators/right_off.png">>
      ELSE <<"Hazard_OFF.png", "Hazard_ON.png">>

\* the draw_turn / draw_hazard calls at the end of each script, in order
PltCalls(s) ==
    IF s = "turn"
      THEN <<"left_on.png", "left_off.png", "right_on.png", "right_off.png">>
      ELSE <<"Hazard_OFF.png", "Hazard_ON.png">>

\* plt.subplots(figsize=(4, 2)) in turn.py, (4, 4) in ii.py, saved at dpi=300
PltFigure(s) ==
    IF s = "turn" THEN NewImage("figure", 4 * 300, 2 * 300)
                  ELSE NewImage("figure", 4 * 300, 4 * 300)

\* fig, ax = plt.subplots(...) and the patches
PltCreate ==
    /\ script \in {"turn", "ii"} /\ pc \in {"draw_turn", "draw_hazard"}
    /\ i \in 1..Len(PltCalls(script))
    /\ img = NoImg
    /\ Create(PltFigure(script))
    /\ UNCHANGED <<order, script, drawn,
                   made,
                   pc, sec, i, frames, fonts, fs, dirs, log,
                   started, summary, status, outcome>>

\* plt.savefig(filename, ...); plt.close(); after the last call the script ends
PltSave ==
    /\ script \in {"turn", "ii"} /\ pc \in {"draw_turn", "draw_hazard"}
    /\ img # NoImg
    /\ Save(img, PltCalls(script)[i])
    /\ img' = NoImg
    /\ i' = i + 1
    /\ IF i < Len(PltCalls(script))
         THEN UNCHANGED <<pc, status, outcome>>
         ELSE Exit(0, NoOutcome)
    /\ UNCHANGED <<order, script, drawn,
                   made,
                   sec, frames, created, fonts, dirs, started,
                   summary>>

PltNext == PltCreate \/ PltSave

Next == StartScript \/ TryNext \/ R2Next \/ PltNext

Spec == Init /\ [][Next]_vars

(***************************************************************************)
(* Properties                                                              *)
(***************************************************************************)
HasPrefix(s, pre) == Len(s) >= Len(pre) /\ SubSeq(s, 1, Len(pre)) = pre

\* path names a file directly inside directory dir
InFolder(path, dir) == HasPrefix(path, dir \o "/")

Range(s) == {s[k] : k \in DOMAIN s}

\* the six steps of generate_all, in the order of its body
StepOrder == <<"create_background", "create_labels", "create_indicators",
               "create_warnings", "create_bars", "create_charging_icons">>

TryExited == script = "try" /\ pc = "exit"

\* C1: in try.py, when one of the six generation steps or the summary
\* raises, the exception is caught (an Exception by generate_all, a keyboard
\* interrupt by main) and reported, and main returns a non-zero status.
C1_GenerationErrorReported ==
    (TryExited /\ outcome.at \in Range(StepOrder) \cup {"summary"}) =>
        /\ outcome.raised \in {"Exception", "KeyboardInterrupt"}
        /\ outcome.caught \in {"generate_all", "main"}
        /\ outcome.raised = "Exception" => outcome.caught = "generate_all"
        /\ outcome.reported # "none"
        /\ status \in {1, 130}

C1_Witness ==
    /\ TryExited
    /\ outcome.raised = "Exception" /\ outcome.at = "create_bars"
    /\ outcome.caught = "generate_all" /\ status = 1

\* directory setup, font loading, the six steps and the summary all done
TryCompleted ==
    /\ \A k \in DOMAIN FOLDERS : ("dgus_assets/" \o FOLDERS[k]) \in dirs
    /\ fonts.big # "unset" /\ fonts.med # "unset"
    /\ started = StepOrder
    /\ Len(log) = 20
    /\ summary

\* C2: main of try.py returns 0 exactly when directory setup, font loading,
\* the six steps and the summary completed with no exception propagating;
\* otherwise 1 (an Exception) or 130 (a keyboard interrupt).
C2_ExitStatus ==
    TryExited =>
        /\ status \in {0, 1, 130}
        /\ status = 0 <=> (outcome.raised = "none" /\ TryCompleted)
        /\ status = 1 <=> outcome.raised = "Exception"
        /\ status = 130 <=> outcome.raised = "KeyboardInterrupt"

C2_Witness == TryExited /\ status = 0 /\ summary /\ Len(log) = 20

\* v as three zero-padded decimal digits, for v < 1000
ThreeDigits(v) ==
    Digit[(v \div 100) + 1] \o Digit[((v \div 10) % 10) + 1] \o Digit[(v % 10) + 1]

SpeedFile(v) == "dgus_assets/speed/" \o ThreeDigits(v) \o ".png"

\* the saves of this run into dgus_assets/speed, in order
SpeedWrites == SelectSeq(log, LAMBDA p : InFolder(p, "dgus_assets/speed"))

\* C3: the speed loop of real2.py saves dgus_assets/speed/000.png through
\* 080.png, one file per v in 0..80, each once, in increasing order of v,
\* and the run saves nothing else into that folder.
C3_SpeedFrames ==
    /\ (script = "real2" /\ pc = "loops" /\ sec = 1) =>
          /\ Len(log) = i
          /\ log = [k \in 1..i |-> SpeedFile(k - 1)]
    /\ (script = "real2" /\ ((pc = "loops" /\ sec = 2 /\ i = 0) \/ pc = "exit")) =>
          SpeedWrites = [k \in 1..81 |-> SpeedFile(k - 1)]

C3_Witness ==
    /\ script = "real2" /\ pc = "exit"
    /\ Len(SpeedWrites) = 81
    /\ SpeedWrites[1] = "dgus_assets/speed/000.png"
    /\ SpeedWrites[81] = "dgus_assets/speed/080.png"

\* the font variables each script declares
FontsOf(s) == IF s = "try" THEN {"big", "med"} ELSE {"big", "med", "small"}

FontLoadingPcs == {"idle", "mkdir", "makedirs", "load_fonts", "fonts"}

PastFontLoading ==
    /\ pc \notin FontLoadingPcs
    /\ pc = "exit" => outcome.at \notin {"mkdir", "load_fonts"}

\* C4: when truetype fails for the missing font, every font variable of the
\* script gets the default font and the run goes on: past font loading the
\* fonts are all TrueType or all default, and a run on default fonts that
\* nothing else interrupts ends with the summary and status 0.
C4_FontFallback ==
    script \in {"try", "real2"} =>
        /\ PastFontLoading =>
              \/ \A f \in FontsOf(script) : fonts[f] = "truetype"
              \/ \A f \in FontsOf(script) : fonts[f] = "default"
        /\ (\E f \in FontsOf(script) : fonts[f] = "default") =>
              /\ \A f \in FontsOf(script) : fonts[f] = "default"
              /\ PastFontLoading
              /\ (pc = "exit" /\ outcome.raised = "none") => (summary /\ status = 0)

C4_Witness ==
    /\ script = "real2" /\ pc = "exit" /\ summary /\ status = 0
    /\ fonts = [big |-> "default", med |-> "default", small |-> "default"]

\* the path of the most recent save of this run
LastSaved == log[Len(log)]

\* C5 as claimed: every image saved by real2.py is WIDTH x HEIGHT and every
\* image saved by try.py is CANVAS_WIDTH x CANVAS_HEIGHT.
C5_AllCanvasSize ==
    (script \in {"real2", "try"} /\ log # <<>>) =>
        /\ script = "real2" =>
              (fs[LastSaved].w = WIDTH /\ fs[LastSaved].h = HEIGHT)
        /\ script = "try" =>
              (fs[LastSaved].w = CANVAS_WIDTH /\ fs[LastSaved].h = CANVAS_HEIGHT)

\* the size of each kind of image, by script and place
SizeAt(s, path) ==
    IF s = "real2" THEN
      CASE InFolder(path, "dgus_assets/speed") -> <<WIDTH, HEIGHT>>
        [] InFolder(path, "dgus_assets/rpm") -> <<WIDTH, HEIGHT>>
        [] InFolder(path, "dgus_assets/temp_motor") -> <<80, 220>>
        [] InFolder(path, "dgus_assets/temp_controller") -> <<80, 220>>
        [] InFolder(path, "dgus_assets/temp_battery") -> <<80, 220>>
        [] InFolder(path, "dgus_assets/soc") -> <<240, 80>>
        [] InFolder(path, "dgus_assets/battery_vi") -> <<240, 70>>
        [] InFolder(path, "dgus_assets/motor_vi") -> <<240, 70>>
        [] InFolder(path, "dgus_assets/charging") -> <<100, 100>>
        [] InFolder(path, "dgus_assets/indicators") -> <<140, 100>>
        [] InFolder(path, "dgus_assets/warnings") -> <<100, 100>>
    ELSE
      CASE InFolder(path, "dgus_assets/background") -> <<CANVAS_WIDTH, CANVAS_HEIGHT>>
        [] InFolder(path, "dgus_assets/labels") -> <<260, 50>>
        [] InFolder(path, "dgus_assets/indicators") -> <<120, 80>>
        [] InFolder(path, "dgus_assets/warning") -> <<100, 90>>
        [] HasPrefix(path, "dgus_assets/bars/temp_bar_") -> <<50, 200>>
        [] HasPrefix(path, "dgus_assets/bars/soc_bar_") -> <<200, 40>>
        [] InFolder(path, "dgus_assets/charging") -> <<80, 80>>

\* C5, amended: every saved image has the fixed size of its kind; the
\* declared canvas size is that of the speed and rpm frames of real2.py and
\* of the background of try.py only.
C5_SizeByKind ==
    (script \in {"real2", "try"} /\ log # <<>>) =>
        /\ fs[LastSaved].by = script
        /\ <<fs[LastSaved].w, fs[LastSaved].h>> = SizeAt(script, LastSaved)

C5_Witness ==
    /\ script = "real2" /\ log # <<>>
    /\ InFolder(LastSaved, "dgus_assets/temp_motor")
    /\ fs[LastSaved].w = 80 /\ fs[LastSaved].h = 220

\* how many distinct paths this run saved under a prefix
Saved(pre) == Cardinality({q \in Range(log) : HasPrefix(q, pre)})

\* C6: once generate_all of try.py has returned True, the run has saved
\* exactly 20 files: 1 background, 7 labels, 4 arrow indicators, 2 warning
\* icons, 2 temperature bars, 2 SOC bars and 2 charging icons, each in the
\* folder of its kind, and all of them are on disk.
C6_TryFiles ==
    (TryExited /\ summary) =>
        /\ Len(log) = 20
        /\ Cardinality(Range(log)) = 20
        /\ Saved("dgus_assets/background/") = 1
        /\ Saved("dgus_assets/labels/") = 7
        /\ Saved("dgus_assets/indicators/") = 4
        /\ Saved("dgus_assets/warning/") = 2
        /\ Saved("dgus_assets/bars/temp_bar_") = 2
        /\ Saved("dgus_assets/bars/soc_bar_") = 2
        /\ Saved("dgus_assets/charging/") = 2
        /\ \A q \in Range(log) : q \in DOMAIN fs /\ fs[q].by = "try"

C6_Witness ==
    /\ TryExited /\ summary /\ status = 0
    /\ "dgus_assets/bars/soc_bar_fill.png" \in Range(log)
    /\ "dgus_assets/labels/motor.png" \in Range(log)

\* C7: when real2.py has printed its summary, the number of files saved per
\* folder is the number the summary prints.
C7_Real2Counts ==
    (script = "real2" /\ summary) =>
        /\ Saved("dgus_assets/speed/") = 81
        /\ Saved("dgus_assets/rpm/") = 17
        /\ Saved("dgus_assets/temp_motor/") = 101
        /\ Saved("dgus_assets/temp_controller/") = 101
        /\ Saved("dgus_assets/temp_battery/") = 101
        /\ Saved("dgus_assets/soc/") = 101
        /\ Saved("dgus_assets/battery_vi/") = 101
        /\ Saved("dgus_assets/motor_vi/") = 151
        /\ Saved("dgus_assets/charging/charging_") = 4
        /\ Saved("dgus_assets/charging/") = 5
        /\ Saved("dgus_assets/indicators/left_") = 4
        /\ Saved("dgus_assets/indicators/right_") = 4
        /\ Saved("dgus_assets/indicators/") = 8
        /\ Saved("dgus_assets/warnings/") = 5
        /\ Range(log) \subseteq DOMAIN fs

C7_Witness ==
    /\ script = "real2" /\ summary /\ pc = "exit"
    /\ "dgus_assets/motor_vi/150.png" \in Range(log)
    /\ "dgus_assets/indicators/right_off.png" \in Range(log)

\* C8 as claimed: at most one image exists that is created and not saved.
C8_OneUnsaved == Cardinality(unsaved) <= 1

\* C8, amended: in try.py, turn.py, ii.py and in real2.py up to the V/I
\* bars at most one image is created and not yet saved.  The animated
\* helpers build all frames first: 4 charging frames before the first save,
\* 4 discharging frames of which only the first is ever saved, 3 indicator
\* frames per direction; from the discharging save on, 3 images stay unsaved.
C8_UnsavedImages ==
    LET n == Cardinality(unsaved)
    IN /\ script # "real2" => n <= 1
       /\ script = "real2" =>
            CASE pc \in {"makedirs", "fonts", "loops"} -> n <= 1
              [] pc = "charging_build" -> n = i
              [] pc = "charging_save" -> n = 4 - i
              [] pc = "discharging_build" -> n = i
              [] pc = "discharging_save" -> n = 4
              [] pc \in {"left_build", "right_build"} -> n = 3 + i
              [] pc \in {"left_save", "right_save"} -> n = 3 + (3 - i)
              [] pc \in {"off_states", "warnings"} -> n \in {3, 4}
              [] pc \in {"summary", "exit"} -> n = 3

C8_Witness ==
    script = "real2" /\ pc = "left_build" /\ Cardinality(unsaved) = 6

\* C9 as claimed: no script changes a file that another script saved.
C9_NoOverwrite ==
    [][\A q \in DOMAIN fs : fs[q].by # script' => fs'[q] = fs[q]]_vars

\* the paths that both real2.py and try.py save
SharedPaths == {"dgus_assets/indicators/left_off.png",
                "dgus_assets/indicators/right_off.png",
                "dgus_assets/charging/discharging.png"}

\* C9, amended: a script changes a file saved by another script only when
\* the two are real2.py and try.py and the file is one of the three paths
\* both save; every other file of an earlier script is left as it was, and
\* turn.py and ii.py neither overwrite nor are overwritten.
C9_OverwritesOnlyShared ==
    [][\A q \in DOMAIN fs :
          /\ q \in DOMAIN fs'
          /\ fs'[q] # fs[q] =>
                /\ q \in SharedPaths
                /\ {fs[q].by, script'} = {"real2", "try"}]_vars

C9_Witness ==
    /\ script = "try" /\ pc = "exit"
    /\ \A q \in SharedPaths : q \in DOMAIN fs /\ fs[q].by = "try"
    /\ "dgus_assets/indicators/left_0.png" \in DOMAIN fs
    /\ fs["dgus_assets/indicators/left_0.png"].by = "real2"

\* C10: generate_all starts its steps in the fixed order, each at most once;
\* a step that raises is the last one started, the summary is not printed,
\* and from then on the run saves nothing, starts nothing and leaves the
\* files it had saved in place.
C10_StopAtFirstError ==
    /\ [](script = "try" =>
            /\ Len(started) <= Len(StepOrder)
            /\ \A k \in DOMAIN started : started[k] = StepOrder[k]
            /\ outcome.raised # "none" =>
                  /\ ~summary
                  /\ outcome.at \in Range(StepOrder) =>
                        started[Len(started)] = outcome.at
                  /\ \A q \in Range(log) : q \in DOMAIN fs /\ fs[q].by = "try")
    /\ [][(script = "try" /\ outcome.raised # "none" /\ order' = order) =>
            (log' = log /\ started' = started /\ fs' = fs /\ ~summary')]_vars

C10_Witness ==
    /\ TryExited
    /\ outcome.raised = "Exception" /\ outcome.at = "create_indicators"
    /\ started = <<"create_background", "create_labels", "create_indicators">>
    /\ Len(log) = 10
    /\ ~summary

\* the position of a colour in the order GREEN, YELLOW, RED
Rank(c) == CASE c = GREEN -> 0 [] c = YELLOW -> 1 [] c = RED -> 2

\* the loop body of real2.py has drawn frame i of section sec
Drawn == script = "real2" /\ pc = "loops" /\ img # NoImg

\* the sections of temp_bar_enhanced
TempSecs == {3, 4, 5}

\* C11: the gauge colour is a threshold function of the value. The speed
\* gauge draws GREEN for v in 0..39, YELLOW for 40..59 and RED for 60..80;
\* get_temp_color(t, 100), as the temperature bars use it, gives GREEN for
\* t in 0..49, YELLOW for 50..74 and RED for 75..100. From one frame of a
\* loop to the next the colour never moves back in the order GREEN, YELLOW,
\* RED, and by the last frame of a loop all three colours have occurred.
C11_ColourThresholds ==
    /\ [](Drawn /\ sec = 1 =>
            /\ drawn.color = SpeedColor(i)
            /\ i \in 0..39 => drawn.color = GREEN
            /\ i \in 40..59 => drawn.color = YELLOW
            /\ i \in 60..80 => drawn.color = RED
            /\ i = SPEED_MAX =>
                  {SpeedColor(v) : v \in 0..i} = {GREEN, YELLOW, RED})
    /\ [](Drawn /\ sec \in TempSecs =>
            /\ drawn.color = get_temp_color(i, 100)
            /\ i \in 0..49 => drawn.color = GREEN
            /\ i \in 50..74 => drawn.color = YELLOW
            /\ i \in 75..100 => drawn.color = RED
            /\ i = 100 =>
                  {get_temp_color(t, 100) : t \in 0..i} = {GREEN, YELLOW, RED})
    /\ [][(Drawn /\ Drawn' /\ sec' = sec /\ sec \in {1} \cup TempSecs) =>
            Rank(drawn'.color) >= Rank(drawn.color)]_vars

C11_Witness ==
    /\ Drawn /\ sec = 5 /\ i = 75
    /\ drawn.color = RED
    /\ "dgus_assets/temp_battery/074.png" \in DOMAIN fs
    /\ "dgus_assets/speed/080.png" \in DOMAIN fs

\* the sweep angle is floor(270 * v / max) and the arc runs from 135 degrees
\* over that angle
Sweep(d, v, max) ==
    /\ d.kind = "arc"
    /\ max * d.angle <= 270 * v /\ 270 * v < max * (d.angle + 1)
    /\ v = 0 => d.angle = 0
    /\ v = max => d.angle = 270
    /\ d.start = 135 /\ d.end = 135 + d.angle
    /\ d.end \in 135..405

\* C12: the speed arc sweep angle int(270 * v / SPEED_MAX) equals
\* floor(270 * v / 80) for every v in 0..80: it is 0 for v = 0, 270 for
\* v = 80 and never decreases from one frame to the next, so the arc starts
\* at 135 degrees and ends between 135 and 405 degrees; the RPM arc obeys
\* the same for i in 0..16 with int(270 * i / 16).
C12_ArcAngle ==
    /\ [](Drawn /\ sec = 1 => i \in 0..SPEED_MAX /\ Sweep(drawn, i, SPEED_MAX))
    /\ [](Drawn /\ sec = 2 => i \in 0..16 /\ Sweep(drawn, i, 16))
    /\ [][(Drawn /\ Drawn' /\ sec' = sec /\ sec \in {1, 2}) =>
            drawn'.angle >= drawn.angle]_vars

C12_Witness ==
    /\ Drawn /\ sec = 2 /\ i = 9
    /\ drawn.angle = 151 /\ drawn.end = 286
    /\ "dgus_assets/speed/080.png" \in DOMAIN fs

\* the fill rectangle lies inside the outline, clear of its line
Inside(d) ==
    /\ d.outline[1] + d.width <= d.rect[1]
    /\ d.outline[2] + d.width <= d.rect[2]
    /\ d.rect[3] <= d.outline[3] - d.width
    /\ d.rect[4] <= d.outline[4] - d.width

\* a bar whose fill is 0 at value 0 and full at value max, and whose fill
\* rectangle box is drawn exactly when the fill is positive
Bar(d, v, max, full, box) ==
    /\ d.kind = "bar"
    /\ v \in 0..max
    /\ d.fill \in 0..full
    /\ v = 0 => d.fill = 0
    /\ v = max => d.fill = full
    /\ d.fill = 0 => d.rect = <<>>
    /\ d.fill > 0 => d.rect = box /\ Inside(d)

\* C13: for every value of its loop a bar's fill rectangle lies strictly
\* inside the bar's outline and is drawn only when its size is positive:
\* temperature bars (t in 0..100) have 26 <= top_y <= 201, the SOC bar
\* (s in 0..100) has right edge 15 + fill_width <= 215 and the V/I bars
\* (v in 0..max_val) right edge 13 + fill_width <= 223; the fill is 0 at
\* the minimum value and maximal (175, 200, 210) at the maximum value.
C13_FillInsideOutline ==
    Drawn =>
      /\ sec \in TempSecs =>
            /\ Bar(drawn, i, 100, 175, <<19, drawn.top_y, 61, 201>>)
            /\ drawn.top_y = 201 - drawn.fill
            /\ 26 <= drawn.top_y /\ drawn.top_y <= 201
      /\ sec = 6 =>
            /\ Bar(drawn, i, 100, 200, <<15, 25, 15 + drawn.fill, 55>>)
            /\ 15 + drawn.fill <= 215
      /\ sec \in {7, 8} =>
            /\ Bar(drawn, i, IF sec = 7 THEN 100 ELSE 150, 210,
                   <<13, 33, 13 + drawn.fill, 57>>)
            /\ 13 + drawn.fill <= 223

C13_Witness ==
    /\ Drawn /\ sec = 8 /\ i = 150
    /\ drawn.rect = <<13, 33, 223, 57>>
    /\ "dgus_assets/temp_battery/100.png" \in DOMAIN fs
    /\ "dgus_assets/soc/100.png" \in DOMAIN fs

\* os.path.dirname: the path up to its last "/", "" for a bare file name
DirName(path) ==
    IF \A k \in 1..Len(path) : SubSeq(path, k, k) # "/" THEN ""
    ELSE LET last == CHOOSE k \in 1..Len(path) :
                        /\ SubSeq(path, k, k) = "/"
                        /\ \A j \in (k + 1)..Len(path) : SubSeq(path, j, j) # "/"
         IN SubSeq(path, 1, last - 1)

\* the directories a script's folder list names
FolderList(s) ==
    CASE s = "try" -> {Join(OUTPUT_DIR, FOLDERS[k]) : k \in DOMAIN FOLDERS}
      [] s = "real2" -> {Join(BASE_DIR, folders[k]) : k \in DOMAIN folders}
      [] OTHER -> {}

\* C14 as claimed: every file write targets a directory that was created
\* earlier in the same run.
C14_EveryWriteInCreatedDir ==
    log # <<>> => DirName(LastSaved) \in made

\* C14, amended: every file write of try.py and of real2.py targets a
\* directory created earlier in the same run. In try.py all folders of
\* Config.FOLDERS are created before any create_* step starts, in real2.py
\* all listed folders before the first save, and the folder of every output
\* path of the two is a member of the script's folder list. turn.py and
\* ii.py create no directory and save by bare file name into the working
\* directory.
C14_WritesInCreatedDirs ==
    /\ (script \in {"try", "real2"} /\ (log # <<>> \/ started # <<>>)) =>
          FolderList(script) \subseteq made
    /\ (script \in {"try", "real2"} /\ log # <<>>) =>
          /\ DirName(LastSaved) \in FolderList(script)
          /\ DirName(LastSaved) \in made
    /\ script \in {"turn", "ii"} =>
          /\ made = {}
          /\ log # <<>> => DirName(LastSaved) = ""

C14_Witness ==
    /\ TryExited /\ summary
    /\ Len(log) = 20
    /\ DirName(log[17]) = "dgus_assets/bars"
    /\ "dgus_assets/bars" \in made
    /\ Cardinality(made) = Len(FOLDERS) + 1

\* C15: within a single run of one script no output path is written twice.
\* Each save goes to a path the run has not saved before, so at the end of a
\* run its saved paths are pairwise distinct: the 772 paths of real2.py
\* (the three temperature folders and the two V/I folders, which share one
\* routine each, included) and the 20 paths of generate_all of try.py.
C15_NoPathTwice ==
    /\ log # <<>> => \A k \in 1..(Len(log) - 1) : log[k] # LastSaved
    /\ pc = "exit" => Cardinality(Range(log)) = Len(log)
    /\ (script = "real2" /\ pc = "exit") => Len(log) = 772
    /\ (TryExited /\ summary) => Len(log) = 20

C15_Witness ==
    /\ script = "real2" /\ pc = "exit"
    /\ Cardinality(Range(log)) = 772
    /\ {"dgus_assets/temp_motor/050.png", "dgus_assets/temp_controller/050.png",
        "dgus_assets/temp_battery/050.png", "dgus_assets/battery_vi/050.png",
        "dgus_assets/motor_vi/050.png"} \subseteq Range(log)

\* C16 as claimed: the three inline colour selections of real2.py (speed,
\* RPM, SOC) agree with the shared helper get_temp_color.
C16_ThreeSelectionsAgree ==
    Drawn =>
      /\ sec = 1 => drawn.color = get_temp_color(i, SPEED_MAX)
      /\ sec = 2 => drawn.color = get_temp_color(500 * i, 8000)
      /\ sec = 6 => drawn.color = get_temp_color(i, 100)

\* C16, amended: two of the three inline colour selections of real2.py
\* agree with the shared helper: for every v in 0..80 the speed colour
\* equals get_temp_color(v, 80), and for every i in 0..16 the RPM colour for
\* rpm_val = 500 * i equals get_temp_color(rpm_val, 8000), with thresholds
\* at one half and three quarters of the maximum. The third, the SOC fill
\* colour, runs the other way (RED up to 20, YELLOW up to 60, GREEN above)
\* and equals get_temp_color(s, 100) only for s in 50..60.
C16_SpeedAndRpmAgree ==
    Drawn =>
      /\ sec = 1 =>
            /\ drawn.color = get_temp_color(i, SPEED_MAX)
            /\ drawn.color = GREEN <=> 2 * i < SPEED_MAX
            /\ drawn.color = RED <=> 4 * i >= 3 * SPEED_MAX
      /\ sec = 2 =>
            /\ drawn.color = get_temp_color(500 * i, 8000)
            /\ drawn.color = GREEN <=> 2 * (500 * i) < 8000
            /\ drawn.color = RED <=> 4 * (500 * i) >= 3 * 8000
      /\ sec = 6 =>
            /\ drawn.color = SocColor(i)
            /\ drawn.color = get_temp_color(i, 100) <=> i \in 50..60

C16_Witness ==
    /\ Drawn /\ sec = 2 /\ i = 8
    /\ drawn.color = YELLOW
    /\ get_temp_color(4000, 8000) = YELLOW
    /\ "dgus_assets/speed/040.png" \in DOMAIN fs

====
